---- MODULE Spec2Model ----
(***************************************************************************)
(* Model of the assessment-and-remediation engine of tutorat_ai            *)
(* (src/app.py): grading of exercise submissions, remediation generation,  *)
(* the remediation lifecycle, the guided dialogue kept in the Flask        *)
(* session, and the trial/payment gate.                                    *)
(*                                                                         *)
(* One browser session (a Flask cookie session) is modelled; the durable   *)
(* store holds the StudentResponse and RemediationSuggestion rows.  The    *)
(* completion service is an input of each handler: it returns a text or    *)
(* fails.  The store's commit is an input too: it succeeds or raises.      *)
(***************************************************************************)
EXTENDS Integers, Sequences, FiniteSets, TLC

(***************************************************************************)
(* Bounds of the model.                                                    *)
(***************************************************************************)
\* graded exercise submissions, graded remediation attempts, suggestion rows,
\* clock ticks, and dialogue entries above which no further message is sent
MaxReponses == 2
MaxTentatives == 2
MaxSuggestions == 1
MaxTemps == 2
MaxTranscript == 16
MaxEssais == 6         \* largest max_retries handed to execute_with_retry

\* the students in the store
Eleves == {1, 2}
\* the single exercise of the single lesson in the store
Exercices == {1}
\* an id sent by a form: 0 is a missing field, the largest one an unknown row
IdsEleveForm == {0, 1, 2, 3}
IdsExerciceForm == {0, 1, 2}

(***************************************************************************)
(* Completion texts.  A text is a sequence of lines; a line is what the    *)
(* grading regexes can see of it: the word before the colon, the digits    *)
(* that follow the colon, and whether "/5" follows the first digit run.    *)
(***************************************************************************)
Ligne(l, ds, s) == [label |-> l, digits |-> ds, slash5 |-> s]

\* re.IGNORECASE on the alternation (Note|Score)
Minuscule(l) ==
    CASE l \in {"Note", "NOTE", "note"} -> "note"
      [] l \in {"Score", "SCORE", "score"} -> "score"
      [] OTHER -> l

\* the alternation reduced to Note: a Score line is not a score line
EstLabelNote_note_seule(l) == Minuscule(l) = "note"

EstLabelNote(l) == Minuscule(l) \in {"note", "score"}

\* r"(Note|Score)\s*:\s*(\d)/5" : one digit immediately followed by /5
MatchSur5(ligne) ==
    /\ EstLabelNote(ligne.label)
    /\ Len(ligne.digits) = 1
    /\ ligne.slash5

\* r"(Note|Score)\s*:\s*(\d)" : the first digit after the label
MatchSimple(ligne) ==
    /\ EstLabelNote(ligne.label)
    /\ Len(ligne.digits) >= 1

Min2(a, b) == IF a < b THEN a ELSE b

\* re.search returns the leftmost match
PremierMatchSur5(texte) ==
    CHOOSE i \in 1..Len(texte) :
        /\ MatchSur5(texte[i])
        /\ \A j \in 1..(i - 1) : ~MatchSur5(texte[j])

PremierMatchSimple(texte) ==
    CHOOSE i \in 1..Len(texte) :
        /\ MatchSimple(texte[i])
        /\ \A j \in 1..(i - 1) : ~MatchSimple(texte[j])

\* the score extraction inlined in every grading handler
etoiles_extraites(analyse_ia) ==
    IF \E i \in 1..Len(analyse_ia) : MatchSur5(analyse_ia[i])
    THEN analyse_ia[PremierMatchSur5(analyse_ia)].digits[1]
    ELSE IF \E i \in 1..Len(analyse_ia) : MatchSimple(analyse_ia[i])
         THEN Min2(analyse_ia[PremierMatchSimple(analyse_ia)].digits[1], 5)
         ELSE 0

\* analyse_ia = f"Erreur IA : {e}" when the completion call raises
ErreurIA == <<Ligne("Erreur IA", <<>>, FALSE)>>

\* the completions the grading service returns in this model
Analyse(l, ds, s) == <<Ligne("Analyse", <<>>, FALSE), Ligne(l, ds, s)>>

CompletionsNote ==
    { Analyse("Note", <<2>>, TRUE),
      Analyse("Note", <<3>>, TRUE),
      Analyse("Score", <<4>>, FALSE),
      Analyse("score", <<7>>, TRUE),
      Analyse("Correction", <<4>>, TRUE) }

\* a completion below the pass mark
CompletionsEchouees == { Analyse("Note", <<2>>, TRUE) }

\* the completions of the remediation attempts: one below, one above the pass mark
CompletionsTentative ==
    { Analyse("Note", <<2>>, TRUE),
      Analyse("Note", <<4>>, TRUE) }

\* the completions whose first score line is "<label>: d/5", between a line of
\* analysis that carries a digit and a later line "Score: 1/5"
CompletionsSur5 ==
    { <<Ligne("Analyse", <<9>>, FALSE), Ligne(l, <<d>>, TRUE), Ligne("Score", <<1>>, TRUE)>> :
        l \in {"Note", "note", "Score", "SCORE"}, d \in 0..5 }

\* outcome of one completion call: a text, or a failure
Reussite(texte) == [ok |-> TRUE, texte |-> texte]
EchecIA == [ok |-> FALSE, texte |-> <<>>]
ResultatsIA(textes) == {Reussite(t) : t \in textes} \cup {EchecIA}
IssuesIA == {"ok", "echec"}
IssuesCommit == {"ok", "echec"}
IssueDe(c) == IF c.ok THEN "ok" ELSE "echec"

VARIABLES
    now,          \* the clock read by essai_est_expire
    eleves,       \* User rows of role "élève": payment status, trial end and
                  \* subscription end (the empty set when the column is null)
    reponses,     \* StudentResponse rows, in insertion order
    suggestions,  \* RemediationSuggestion rows by id (statut "absent": no row)
    session,      \* the Flask session of the browser
    last          \* what the last request did and returned

vars == <<now, eleves, reponses, suggestions, session, last>>

(***************************************************************************)
(* Rows and session values.                                                *)
(***************************************************************************)
IdsSuggestion == 1..MaxSuggestions

\* a RemediationSuggestion id that holds no row and never held one
SuggestionAbsente ==
    [statut |-> "absent", user_id |-> 0, exercice_suggere |-> "",
     message |-> "", reponse_eleve |-> "", etoiles |-> 0]

\* session['remediation_access'] when the key is absent
AccesAbsent == [exercice_id |-> 0, note |-> 0]

\* the Flask session with no key set
SessionVide ==
    [keys |-> {}, eleve_id |-> 0, remediation_access |-> AccesAbsent,
     conversation |-> <<>>, derniere_q_ia |-> ""]

\* session.pop(key, None)
SessionPop(sess, key) ==
    LET sans == [sess EXCEPT !.keys = @ \ {key}] IN
    CASE key = "eleve_id" -> [sans EXCEPT !.eleve_id = 0]
      [] key = "remediation_access" -> [sans EXCEPT !.remediation_access = AccesAbsent]
      [] key = "conversation" -> [sans EXCEPT !.conversation = <<>>]
      [] key = "derniere_q_ia" -> [sans EXCEPT !.derniere_q_ia = ""]
      [] OTHER -> sans

\* what a request did: the handler, its outcome, the grading completion call
\* ("-" when it was not made), the parsed score, the number of calls to the
\* remediation completion and how the call ended ("-" when it was not made),
\* the id of the StudentResponse row it committed (0: none) and the id of the
\* RemediationSuggestion row it committed or addressed (0: none)
Resultat(op, issue, ia, etoiles, appels, rem, rid, sid) ==
    [op |-> op, issue |-> issue, ia |-> ia, etoiles |-> etoiles,
     appels_remediation |-> appels, remediation |-> rem,
     reponse_id |-> rid, suggestion_id |-> sid]

Simple(op, issue) == Resultat(op, issue, "-", 0, 0, "-", 0, 0)

\* the response of a page of the student area: its outcome and the message it
\* flashes ("" when it flashes none)
Page(op, issue, flash) == Simple(op, issue) @@ [flash |-> flash]

\* the response of an accepted dialogue message: how the generation ended
\* ("ok", "repli" when the generator caught the failure of the completion call
\* and returned its fallback text, "exception" when the generator raised), the
\* generator that was called, the derniere_q and historique it was given, and
\* the question carried by the tutor text it returned
Dialogue(issue, flash, tour, mode, derniere_q, historique, q) ==
    Page("enseignant_virtuel", issue, flash) @@
        [tour |-> tour, mode |-> mode, derniere_q |-> derniere_q,
         historique |-> historique, question |-> q]

\* trial length, in units of 48 hours
DureeEssai == 1

\* User.essai_est_expire(): the trial has ended
essai_est_expire(e) == now >= eleves[e].date_fin_essai

\* the denial test without the trial: every student who has not paid is refused
AccesRefuse_sans_essai(e) == eleves[e].statut_paiement # "paye"

\* the denial test shared by before_request, enseignant_virtuel and dashboard_eleve
AccesRefuse(e) == essai_est_expire(e) /\ eleves[e].statut_paiement # "paye"

\* id given to a new RemediationSuggestion row (autoincrement)
NouvelIdSuggestion ==
    CHOOSE i \in IdsSuggestion :
        /\ suggestions[i].statut = "absent"
        /\ \A j \in 1..(i - 1) : suggestions[j].statut # "absent"

PlaceSuggestion == \E i \in IdsSuggestion : suggestions[i].statut = "absent"

\* RemediationSuggestion(..., statut="en_attente") as built by the submission handlers
NouvelleSuggestion(user, contenu) ==
    [statut |-> "en_attente", user_id |-> user, exercice_suggere |-> contenu,
     message |-> "auto", reponse_eleve |-> "", etoiles |-> 0]

NouvelleReponse(user, exo, analyse, etoiles) ==
    [user_id |-> user, exercice_id |-> exo, analyse_ia |-> analyse, etoiles |-> etoiles]

\* rows of exercise submissions, rows of remediation attempts (exercice_id None)
NbSoumissions == Cardinality({i \in 1..Len(reponses) : reponses[i].exercice_id # 0})
NbTentatives == Cardinality({i \in 1..Len(reponses) : reponses[i].exercice_id = 0})

Init ==
    /\ now = 0
    /\ eleves = [e \in Eleves |->
                   [statut_paiement |-> IF e = 1 THEN "essai_gratuit" ELSE "paye",
                    date_fin_essai |-> DureeEssai,
                    \* student 2 paid during the trial for a plan that ends after it
                    date_fin_abonnement |-> IF e = 1 THEN {} ELSE {DureeEssai + 1}]]
    /\ reponses = <<>>
    /\ suggestions = [i \in IdsSuggestion |-> SuggestionAbsente]
    /\ session = SessionVide
    /\ last = Simple("init", "-")

\* time passes
Tick ==
    /\ now < MaxTemps
    /\ now' = now + 1
    /\ last' = Simple("tick", "-")
    /\ UNCHANGED <<eleves, reponses, suggestions, session>>

\* POST /login-eleve
login_eleve(e, identifiants_ok) ==
    /\ IF identifiants_ok
       THEN /\ session' = [session EXCEPT !.keys = @ \cup {"eleve_id"}, !.eleve_id = e]
            /\ last' = Simple("login_eleve",
                              IF essai_est_expire(e) THEN "redirect_upgrade"
                              ELSE "redirect_dashboard")
       ELSE /\ session' = session
            /\ last' = Simple("login_eleve", "identifiants_incorrects")
    /\ UNCHANGED <<now, eleves, reponses, suggestions>>

\* GET /logout
logout ==
    /\ session' = SessionVide
    /\ last' = Simple("logout", "redirect_index")
    /\ UNCHANGED <<now, eleves, reponses, suggestions>>

\* soumettre_reponse: "if etoiles < 3"
DoitRemedier_reponse(etoiles) == etoiles < 3

\* an off-by-one of the threshold: a score of 3 triggers remediation too
DoitRemedier_seuil_inclus(etoiles) == etoiles <= 3

\* soumettre_sequentiel: "if etoiles < 3"
DoitRemedier_sequentiel(etoiles) == etoiles < 3

\* POST /soumettre-reponse
soumettre_reponse(student_id, exercice_id, reponse_vide, c, rem, commit) ==
    LET analyse_ia == IF c.ok THEN c.texte ELSE ErreurIA
        ia == IssueDe(c)
        etoiles == etoiles_extraites(analyse_ia)
        remedie == DoitRemedier_reponse(etoiles)
        cree == remedie /\ rem = "ok"
        appels == IF remedie THEN 1 ELSE 0
        issue_rem == IF remedie THEN rem ELSE "-"
        sid == IF cree THEN NouvelIdSuggestion ELSE 0
    IN
    /\ UNCHANGED <<now, eleves>>
    /\ IF student_id = 0 \/ exercice_id = 0 \/ reponse_vide
       THEN /\ last' = Simple("soumettre_reponse", "400")
            /\ UNCHANGED <<reponses, suggestions, session>>
       ELSE IF student_id \notin Eleves \/ exercice_id \notin Exercices
       THEN /\ last' = Simple("soumettre_reponse", "404")
            /\ UNCHANGED <<reponses, suggestions, session>>
       ELSE /\ NbSoumissions < MaxReponses
            /\ cree => PlaceSuggestion
            \* the grant is written to the session before the commit
            /\ session' =
                 IF cree
                 THEN [session EXCEPT
                         !.keys = @ \cup {"remediation_access"},
                         !.remediation_access = [exercice_id |-> exercice_id, note |-> etoiles]]
                 ELSE session
            /\ IF commit = "ok"
               THEN /\ reponses' = Append(reponses,
                                          NouvelleReponse(student_id, exercice_id, analyse_ia, etoiles))
                    /\ suggestions' =
                         IF cree
                         THEN [suggestions EXCEPT ![sid] = NouvelleSuggestion(student_id, "genere")]
                         ELSE suggestions
                    /\ last' = Resultat("soumettre_reponse", "200", ia, etoiles, appels,
                                        issue_rem, Len(reponses) + 1, sid)
               ELSE \* the pending suggestion and response are dropped with the transaction
                    /\ UNCHANGED <<reponses, suggestions>>
                    /\ last' = Resultat("soumettre_reponse", "500_db", ia, etoiles, appels,
                                        issue_rem, 0, 0)

\* POST /soumettre-sequentiel
soumettre_sequentiel(student_id, exercice_id, reponse_vide, action, c, commit, rem, commit2) ==
    LET analyse_ia == IF c.ok THEN c.texte ELSE ErreurIA
        ia == IssueDe(c)
        etoiles == etoiles_extraites(analyse_ia)
        remedie == DoitRemedier_sequentiel(etoiles)
        contenu == IF rem = "ok" THEN "genere" ELSE "erreur"
        sid == IF remedie /\ commit2 = "ok" THEN NouvelIdSuggestion ELSE 0
        rid == Len(reponses) + 1
    IN
    /\ UNCHANGED <<now, eleves, session>>
    /\ IF student_id \notin Eleves \/ exercice_id \notin Exercices
       THEN /\ last' = Simple("soumettre_sequentiel", "404")
            /\ UNCHANGED <<reponses, suggestions>>
       ELSE IF ~(action = "submit" /\ ~reponse_vide)
       THEN \* nothing is graded: the page shows the last stored response
            /\ last' = Simple("soumettre_sequentiel", "200")
            /\ UNCHANGED <<reponses, suggestions>>
       ELSE /\ NbSoumissions < MaxReponses
            /\ IF commit # "ok"
               THEN /\ last' = Resultat("soumettre_sequentiel", "500_db", ia, etoiles, 0, "-", 0, 0)
                    /\ UNCHANGED <<reponses, suggestions>>
               ELSE /\ reponses' = Append(reponses,
                                          NouvelleReponse(student_id, exercice_id, analyse_ia, etoiles))
                    /\ IF ~remedie
                       THEN /\ suggestions' = suggestions
                            /\ last' = Resultat("soumettre_sequentiel", "200", ia, etoiles, 0, "-", rid, 0)
                       ELSE /\ PlaceSuggestion
                            /\ IF commit2 = "ok"
                               THEN /\ suggestions' =
                                         [suggestions EXCEPT ![sid] = NouvelleSuggestion(student_id, contenu)]
                                    /\ last' = Resultat("soumettre_sequentiel", "200", ia, etoiles, 1, rem, rid, sid)
                               ELSE \* the second commit raises past the handler
                                    /\ suggestions' = suggestions
                                    /\ last' = Resultat("soumettre_sequentiel", "500_exception",
                                                        ia, etoiles, 1, rem, rid, 0)

(***************************************************************************)
(* Remediation lifecycle.                                                  *)
(***************************************************************************)
IdsSuggestionForm == 1..(MaxSuggestions + 1)

\* RemediationSuggestion.query.get_or_404(id) finds a row
SuggestionExiste(id) ==
    /\ id \in IdsSuggestion
    /\ suggestions[id].statut \notin {"absent", "supprimee"}

\* the status a graded attempt gives the suggestion (both attempt handlers)
StatutApresTentative(etoiles) == IF etoiles >= 3 THEN "reussie" ELSE "en_attente"

\* GET|POST /enseignant/valider-remediation/<id>
valider_remediation(id, methode, enseignant_connecte) ==
    /\ UNCHANGED <<now, eleves, reponses, session>>
    /\ IF ~enseignant_connecte
       THEN /\ last' = Simple("valider_remediation", "redirect_login")
            /\ suggestions' = suggestions
       ELSE IF ~SuggestionExiste(id)
       THEN /\ last' = Simple("valider_remediation", "404")
            /\ suggestions' = suggestions
       ELSE IF methode = "POST"
       THEN /\ suggestions' = [suggestions EXCEPT
                                 ![id].message = "prof",
                                 ![id].exercice_suggere = "bloc",
                                 ![id].statut = "valide"]
            /\ last' = Resultat("valider_remediation", "redirect_a_valider", "-", 0, 0, "-", 0, id)
       ELSE /\ last' = Simple("valider_remediation", "200")
            /\ suggestions' = suggestions

\* POST /enseignant/supprimer-remediation/<id>
supprimer_remediation(id, enseignant_connecte) ==
    /\ UNCHANGED <<now, eleves, reponses, session>>
    /\ IF ~enseignant_connecte
       THEN /\ last' = Simple("supprimer_remediation", "redirect_login")
            /\ suggestions' = suggestions
       ELSE IF ~SuggestionExiste(id)
       THEN /\ last' = Simple("supprimer_remediation", "404")
            /\ suggestions' = suggestions
       ELSE /\ suggestions' = [suggestions EXCEPT ![id] =
                                 [SuggestionAbsente EXCEPT !.statut = "supprimee"]]
            /\ last' = Resultat("supprimer_remediation", "redirect_en_attente", "-", 0, 0, "-", 0, id)

\* the grading call of an attempt stores the answer on the suggestion before the
\* call and keeps it when the call fails
EchecNotationRemediation_ecrit_avant(id, ia) ==
    /\ last' = Resultat("faire_remediation", "500_ia", ia, 0, 0, "-", 0, id)
    /\ suggestions' = [suggestions EXCEPT ![id].reponse_eleve = "r"]
    /\ UNCHANGED reponses

\* except Exception: return "Erreur IA", 500, before any row is touched
EchecNotationRemediation(id, ia) ==
    /\ last' = Resultat("faire_remediation", "500_ia", ia, 0, 0, "-", 0, id)
    /\ UNCHANGED <<reponses, suggestions>>

\* GET|POST /eleve/remediation/<id>
faire_remediation(id, methode, reponse_vide, c) ==
    LET texte == c.texte
        ia == IssueDe(c)
        etoiles == etoiles_extraites(texte)
    IN
    /\ UNCHANGED <<now, eleves, session>>
    /\ IF "eleve_id" \notin session.keys
       THEN /\ last' = Simple("faire_remediation", "redirect_login")
            /\ UNCHANGED <<reponses, suggestions>>
       ELSE IF ~SuggestionExiste(id)
       THEN /\ last' = Simple("faire_remediation", "404")
            /\ UNCHANGED <<reponses, suggestions>>
       ELSE IF suggestions[id].user_id # session.eleve_id
       THEN /\ last' = Simple("faire_remediation", "403")
            /\ UNCHANGED <<reponses, suggestions>>
       ELSE IF suggestions[id].statut # "valide"
       THEN /\ last' = Resultat("faire_remediation", "non_validee", "-", 0, 0, "-", 0, id)
            /\ UNCHANGED <<reponses, suggestions>>
       ELSE IF methode # "POST"
       THEN /\ last' = Resultat("faire_remediation", "200", "-", 0, 0, "-", 0, id)
            /\ UNCHANGED <<reponses, suggestions>>
       ELSE IF reponse_vide
       THEN /\ last' = Resultat("faire_remediation", "400", "-", 0, 0, "-", 0, id)
            /\ UNCHANGED <<reponses, suggestions>>
       ELSE IF ia # "ok"
       THEN EchecNotationRemediation(id, ia)
       ELSE /\ NbTentatives < MaxTentatives
            /\ reponses' = Append(reponses, NouvelleReponse(session.eleve_id, 0, texte, etoiles))
            /\ suggestions' = [suggestions EXCEPT
                                 ![id].reponse_eleve = "r",
                                 ![id].etoiles = etoiles,
                                 ![id].statut = StatutApresTentative(etoiles)]
            /\ last' = Resultat("faire_remediation", "200", ia, etoiles, 0, "-", Len(reponses) + 1, id)

\* POST /soumettre-remediation/<id>
soumettre_remediation(id, reponse_vide, c) ==
    LET texte == c.texte
        ia == IssueDe(c)
        etoiles == etoiles_extraites(texte)
    IN
    /\ UNCHANGED <<now, eleves, session>>
    /\ IF ~SuggestionExiste(id)
       THEN /\ last' = Simple("soumettre_remediation", "404")
            /\ UNCHANGED <<reponses, suggestions>>
       ELSE IF reponse_vide
       THEN /\ last' = Resultat("soumettre_remediation", "400", "-", 0, 0, "-", 0, id)
            /\ UNCHANGED <<reponses, suggestions>>
       ELSE IF ia # "ok"
       THEN /\ last' = Resultat("soumettre_remediation", "500_ia", ia, 0, 0, "-", 0, id)
            /\ UNCHANGED <<reponses, suggestions>>
       ELSE /\ NbTentatives < MaxTentatives
            /\ reponses' = Append(reponses,
                                  NouvelleReponse(suggestions[id].user_id, 0, texte, etoiles))
            /\ suggestions' = [suggestions EXCEPT ![id].statut = StatutApresTentative(etoiles)]
            /\ last' = Resultat("soumettre_remediation", "200", ia, etoiles, 0, "-", Len(reponses) + 1, id)

(***************************************************************************)
(* The text of a suggested exercise, as the teacher's validation page and  *)
(* the student's attempt page read it.  A text is a sequence of lines; a   *)
(* line is the word before its colon (either "Mot:" or "Mot :"), the       *)
(* text after the colon, and whether it starts with "- ".                  *)
(***************************************************************************)
LigneExo(mot, valeur, puce) == [mot |-> mot, valeur |-> valeur, puce |-> puce]

\* the output format asked of the remediation completion, in the student's language
TexteGenere(langue, q, r) ==
    IF langue = "en"
    THEN <<LigneExo("Question", q, FALSE), LigneExo("Expected answer", r, FALSE),
           LigneExo("Hint", "indice", FALSE)>>
    ELSE <<LigneExo("Question", q, FALSE), LigneExo("Réponse attendue", r, FALSE),
           LigneExo("Indice", "indice", FALSE)>>

Langues == {"fr", "en"}

TextesGeneres == { TexteGenere(l, q, r) : l \in Langues, q \in {"q1", "q2"}, r \in {"r1", "r2"} }

\* re.search(mot + r"\s*[:：]\s*(.*)", texte): the rest of the first line that
\* carries the word, "" when no line does
ChercheChamp(texte, mot) ==
    IF \E k \in 1..Len(texte) : texte[k].mot = mot
    THEN texte[CHOOSE k \in 1..Len(texte) :
                   /\ texte[k].mot = mot
                   /\ \A j \in 1..(k - 1) : texte[j].mot # mot].valeur
    ELSE ""

MotReponse(lang) == IF lang = "en" THEN "Expected answer" ELSE "Réponse attendue"
MotExplication(lang) == IF lang = "en" THEN "Explanation" ELSE "Explication"

\* valider_remediation, GET: the fields the page is filled with
PreRemplir(texte, lang) ==
    [question |-> ChercheChamp(texte, "Question"),
     reponse |-> ChercheChamp(texte, MotReponse(lang)),
     explication |-> ChercheChamp(texte, MotExplication(lang))]

\* valider_remediation, POST: the text rebuilt from the form
Bloc(form, lang) ==
    <<LigneExo(IF lang = "en" THEN "Remediation" ELSE "Remédiation", "", FALSE),
      LigneExo("Question", form.question, TRUE),
      LigneExo(MotReponse(lang), form.reponse, TRUE),
      LigneExo(MotExplication(lang), form.explication, TRUE)>>

\* the first non-empty text found after the colon of a line whose word is in mots
PremierNonVide(texte, mots) ==
    LET candidates == {k \in 1..Len(texte) : texte[k].mot \in mots /\ texte[k].valeur # ""}
    IN IF candidates = {} THEN ""
       ELSE texte[CHOOSE k \in candidates : \A j \in candidates : k <= j].valeur

\* faire_remediation: the question and expected answer given to the grading prompt
LireEnonce(texte) ==
    [question |-> PremierNonVide(texte, {"Question"}),
     reponse_attendue |-> PremierNonVide(texte, {"Réponse attendue", "Expected answer"})]

\* GET|POST /enseignant/valider-remediation/<id>?lang=..., with the text of the
\* exercise and the fields of the form
valider_remediation_texte(id, methode, lang, form, enseignant_connecte) ==
    /\ UNCHANGED <<now, eleves, reponses, session>>
    /\ IF ~enseignant_connecte
       THEN /\ last' = Simple("valider_remediation", "redirect_login")
            /\ suggestions' = suggestions
       ELSE IF ~SuggestionExiste(id)
       THEN /\ last' = Simple("valider_remediation", "404")
            /\ suggestions' = suggestions
       ELSE IF methode = "POST"
       THEN /\ suggestions' = [suggestions EXCEPT
                                 ![id].message = form.message,
                                 ![id].exercice_suggere = Bloc(form, lang),
                                 ![id].statut = "valide"]
            /\ last' = Resultat("valider_remediation", "redirect_a_valider", "-", 0, 0, "-", 0, id)
                          @@ [lang |-> lang]
       ELSE /\ suggestions' = suggestions
            /\ last' = Resultat("valider_remediation", "200", "-", 0, 0, "-", 0, id)
                          @@ [lang |-> lang,
                              form |-> PreRemplir(suggestions[id].exercice_suggere, lang)
                                         @@ [message |-> suggestions[id].message]]

(***************************************************************************)
(* Guided dialogue (the TutorSession lives in the Flask session).          *)
(***************************************************************************)
\* "Limiter à 15 messages"
MaxMessages == 15

Message(speaker, kind) == [speaker |-> speaker, kind |-> kind]

\* conversation[-15:]
Derniers(conv, n) ==
    IF Len(conv) > n THEN SubSeq(conv, Len(conv) - n + 1, Len(conv)) ELSE conv

\* the questions a tutor turn can carry ("" when no pattern matches)
QuestionsIA == {"", "q1"}

\* extraire_question on the fallback texts of generer_debut_conversation and
\* generer_suite_conversation: "Peux-tu reformuler ... ?", "Quelle est ... ?",
\* "Can you rephrase ... ?", "What is the next ... ?" all match a pattern
QuestionRepli == "q_repli"

\* historique[-10:] in generer_suite_conversation
HistoriqueSuite_entier(historique) == historique

HistoriqueSuite(historique) == Derniers(historique, 10)

\* before_request: the gate run before the endpoints whose name contains
\* dashboard_eleve, contenus_eleve, exercice or enseignant_virtuel
before_request_refuse ==
    /\ "eleve_id" \in session.keys
    /\ session.eleve_id \in Eleves
    /\ AccesRefuse(session.eleve_id)

\* the student's message appended without the welcome message
ConversationAvecEleve_sans_bienvenue(sess) ==
    Append(sess.conversation, Message("student", "eleve"))

\* the welcome message added before every student message
ConversationAvecEleve_bienvenue_repetee(sess) ==
    Append(Append(sess.conversation, Message("tutor", "bienvenue")),
           Message("student", "eleve"))

\* the transcript once the student's message is appended, after the welcome
\* message when the conversation is new
ConversationAvecEleve(sess) ==
    LET conv0 == sess.conversation
        conv1 == IF conv0 = <<>> THEN <<Message("tutor", "bienvenue")>> ELSE conv0
    IN Append(conv1, Message("student", "eleve"))

\* "if derniere_q_ia:" chooses generer_suite_conversation, else generer_debut_conversation
ModeDialogue(sess) ==
    IF "derniere_q_ia" \in sess.keys /\ sess.derniere_q_ia # "" THEN "suite" ELSE "debut"

\* the try branch: the generator returned a text (its own fallback text when
\* tour is "repli") carrying the question q
TourReussi(sess, tour, q) ==
    LET conv2 == ConversationAvecEleve(sess)
        suite == ModeDialogue(sess) = "suite"
        conv3 == Append(conv2, Message("tutor", IF tour = "ok" THEN "reponse" ELSE "repli"))
        conv4 == IF Len(conv3) > MaxMessages THEN Derniers(conv3, MaxMessages) ELSE conv3
        popped == IF suite THEN SessionPop(sess, "derniere_q_ia") ELSE sess
        stored == [popped EXCEPT !.keys = @ \cup {"conversation"}, !.conversation = conv4]
    IN IF q # ""
       THEN [stored EXCEPT !.keys = @ \cup {"derniere_q_ia"}, !.derniere_q_ia = q]
       ELSE stored

\* the except branch without its apology: the student's message is stored alone
TourExcuse_muet(sess) ==
    [sess EXCEPT !.keys = @ \cup {"conversation"},
                 !.conversation = ConversationAvecEleve(sess)]

\* the except branch: the generator raised
TourExcuse(sess) ==
    [sess EXCEPT !.keys = @ \cup {"conversation"},
                 !.conversation = Append(ConversationAvecEleve(sess),
                                         Message("tutor", "excuse"))]

\* one accepted student message in enseignant_virtuel; tour is "ok" when the
\* completion call returns a text, "repli" when it fails and the generator
\* returns its fallback text, "exception" when the generator raises
TourDialogue(sess, tour, q) ==
    IF tour # "exception" THEN TourReussi(sess, tour, q) ELSE TourExcuse(sess)

\* GET|POST /enseignant-virtuel
enseignant_virtuel(methode, question_valide, tour, q) ==
    /\ UNCHANGED <<now, eleves, reponses, suggestions>>
    /\ IF before_request_refuse
       THEN /\ session' = SessionVide
            /\ last' = Page("enseignant_virtuel", "redirect_login", "essai_48h_termine")
       ELSE IF "eleve_id" \notin session.keys
       THEN /\ session' = session
            /\ last' = Page("enseignant_virtuel", "redirect_login", "")
       ELSE IF AccesRefuse(session.eleve_id)
       THEN /\ session' = SessionVide
            /\ last' = Page("enseignant_virtuel", "redirect_login", "essai_termine")
       ELSE LET init == [session EXCEPT !.keys = @ \cup {"conversation"}]
                mode == ModeDialogue(init)
                suite == mode = "suite"
            IN
            IF methode = "POST" /\ question_valide
            THEN /\ Len(session.conversation) <= MaxTranscript
                 /\ session' = TourDialogue(init, tour, q)
                 /\ last' = Dialogue(IF tour = "exception" THEN "200_excuse" ELSE "200_guide",
                                     IF tour = "exception" THEN "erreur_traitement" ELSE "je_te_guide",
                                     tour, mode,
                                     IF suite THEN init.derniere_q_ia ELSE "",
                                     IF suite THEN HistoriqueSuite(ConversationAvecEleve(init)) ELSE <<>>,
                                     IF tour = "exception" THEN "" ELSE q)
            ELSE /\ session' = init
                 /\ last' = Page("enseignant_virtuel", "200", "")

\* GET /dashboard-eleve
dashboard_eleve ==
    /\ UNCHANGED <<now, eleves, reponses, suggestions>>
    /\ IF before_request_refuse
       THEN /\ session' = SessionVide
            /\ last' = Page("dashboard_eleve", "redirect_login", "essai_48h_termine")
       ELSE IF "eleve_id" \notin session.keys
       THEN /\ session' = session
            /\ last' = Page("dashboard_eleve", "redirect_login", "")
       ELSE IF AccesRefuse(session.eleve_id)
       THEN /\ session' = session
            /\ last' = Page("dashboard_eleve", "redirect_upgrade", "essai_48h_termine")
       ELSE /\ session' = session
            /\ last' = Page("dashboard_eleve", "200", "")

\* plan_durations.get(plan_type, 365), days counted in trial lengths of 48 hours
\* and rounded up
DureePlan(plan_type) ==
    CASE plan_type = "weekly" -> 4
      [] plan_type = "monthly" -> 15
      [] OTHER -> 183

\* what stripe.checkout.Session.retrieve answers: a checkout session, or an error
Checkouts == [payment_status : {"paid", "unpaid", "no_payment_required"},
              mode : {"subscription", "payment"}]
CheckoutIntrouvable == [payment_status |-> "-", mode |-> "-"]

\* User.marquer_comme_paye: the row becomes a paid one
marquer_comme_paye(eleve) == [eleve EXCEPT !.statut_paiement = "paye"]

\* the outcome of /paiement-success with the checkout session it looked at
Paiement(issue, flash, checkout) ==
    Page("paiement_success", issue, flash) @@ [checkout |-> checkout]

\* GET /paiement-success?session_id=..&eleve_id=..&plan_type=..
paiement_success(parametres_presents, eleve_id, plan_type, checkout, commit) ==
    /\ UNCHANGED <<now, reponses, suggestions>>
    /\ IF ~parametres_presents
       THEN /\ last' = Paiement("redirect_inscription", "parametres_manquants", CheckoutIntrouvable)
            /\ UNCHANGED <<eleves, session>>
       ELSE IF checkout = CheckoutIntrouvable
       THEN /\ last' = Paiement("redirect_inscription", "erreur_confirmation", checkout)
            /\ UNCHANGED <<eleves, session>>
       ELSE IF ~(checkout.payment_status = "paid" \/ checkout.mode = "subscription")
       THEN /\ last' = Paiement("redirect_inscription", "paiement_non_confirme", checkout)
            /\ UNCHANGED <<eleves, session>>
       ELSE IF eleve_id \notin Eleves
       THEN /\ last' = Paiement("redirect_inscription", "eleve_non_trouve", checkout)
            /\ UNCHANGED <<eleves, session>>
       ELSE IF commit # "ok"
       THEN /\ last' = Paiement("redirect_inscription", "erreur_confirmation", checkout)
            /\ UNCHANGED <<eleves, session>>
       ELSE /\ eleves' = [eleves EXCEPT ![eleve_id] =
                            [marquer_comme_paye(@) EXCEPT
                                !.date_fin_abonnement = {now + DureePlan(plan_type)}]]
            /\ session' = [session EXCEPT !.keys = @ \cup {"eleve_id"}, !.eleve_id = eleve_id]
            /\ last' = Paiement("redirect_dashboard", "paiement_confirme", checkout)

\* the reset that forgets the transcript only
nouvel_exercice_garde_question ==
    /\ UNCHANGED <<now, eleves, reponses, suggestions>>
    /\ "eleve_id" \in session.keys
    /\ session' = SessionPop(session, "conversation")
    /\ last' = Simple("nouvel_exercice", "redirect_enseignant_virtuel")

\* StudentResponse.query.filter_by(user_id, exercice_id).first() finds a row
reponse_existante(e, x) ==
    \E i \in 1..Len(reponses) : reponses[i].user_id = e /\ reponses[i].exercice_id = x

\* GET|POST /exercice/<ex_id>?username=...
faire_exercice(e, x, methode, reponse_vide) ==
    /\ UNCHANGED <<now, eleves, reponses, suggestions>>
    /\ IF before_request_refuse
       THEN /\ session' = SessionVide
            /\ last' = Page("faire_exercice", "redirect_login", "essai_48h_termine")
       ELSE /\ session' = session
            /\ IF e \notin Eleves \/ x \notin Exercices
               THEN last' = Page("faire_exercice", "404", "")
               ELSE IF methode = "POST" /\ ~reponse_existante(e, x)
               THEN IF reponse_vide
                    THEN last' = Page("faire_exercice", "200", "saisir_reponse")
                    ELSE last' = Page("faire_exercice", "redirect_soumettre_reponse", "")
               ELSE last' = Page("faire_exercice",
                                 IF reponse_existante(e, x) THEN "200_deja_fait" ELSE "200", "")

\* POST /nouvel-exercice
nouvel_exercice ==
    /\ UNCHANGED <<now, eleves, reponses, suggestions>>
    /\ IF before_request_refuse
       THEN /\ session' = SessionVide
            /\ last' = Simple("nouvel_exercice", "redirect_login")
       ELSE IF "eleve_id" \notin session.keys
       THEN /\ session' = session
            /\ last' = Simple("nouvel_exercice", "redirect_login")
       ELSE /\ session' = SessionPop(SessionPop(session, "conversation"), "derniere_q_ia")
            /\ last' = Simple("nouvel_exercice", "redirect_enseignant_virtuel")

\* POST /close-remediation-access
close_remediation_access ==
    /\ UNCHANGED <<now, eleves, reponses, suggestions>>
    /\ IF "eleve_id" \notin session.keys
       THEN /\ session' = session
            /\ last' = Simple("close_remediation_access", "redirect_login")
       ELSE /\ session' =
                 SessionPop(SessionPop(SessionPop(SessionPop(SessionPop(session,
                     "remediation_access_granted"), "remediation_exercice_id"),
                     "remediation_access_count"), "conversation"), "derniere_q_ia")
            /\ last' = Simple("close_remediation_access", "redirect_dashboard")

(***************************************************************************)
(* Specifications.                                                         *)
(***************************************************************************)
\* a form that fails validation or names an unknown row
FormulaireInvalide(s, x, vide) == s \notin Eleves \/ x \notin Exercices \/ vide

\* requests of /soumettre-reponse
NextReponse(soumetteurs, textes) ==
    \/ \E s \in IdsEleveForm, x \in IdsExerciceForm, vide \in BOOLEAN :
            /\ FormulaireInvalide(s, x, vide)
            /\ soumettre_reponse(s, x, vide, EchecIA, "ok", "ok")
    \/ \E s \in soumetteurs, x \in Exercices, c \in ResultatsIA(textes),
          rem \in IssuesIA, commit \in IssuesCommit :
            soumettre_reponse(s, x, FALSE, c, rem, commit)

\* requests of /soumettre-sequentiel
NextSequentiel(soumetteurs, textes) ==
    \/ \E s \in IdsEleveForm, x \in IdsExerciceForm :
            /\ FormulaireInvalide(s, x, FALSE)
            /\ soumettre_sequentiel(s, x, FALSE, "submit", EchecIA, "ok", "ok", "ok")
    \/ \E s \in soumetteurs, x \in Exercices, vide \in BOOLEAN, a \in {"submit", "next"} :
            /\ vide \/ a # "submit"
            /\ soumettre_sequentiel(s, x, vide, a, EchecIA, "ok", "ok", "ok")
    \/ \E s \in soumetteurs, x \in Exercices, c \in ResultatsIA(textes),
          commit \in IssuesCommit, rem \in IssuesIA, commit2 \in IssuesCommit :
            soumettre_sequentiel(s, x, FALSE, "submit", c, commit, rem, commit2)

\* requests of the remediation lifecycle routes
NextRemediation ==
    \/ \E id \in IdsSuggestionForm, m \in {"GET", "POST"}, ens \in BOOLEAN :
            valider_remediation(id, m, ens)
    \/ \E id \in IdsSuggestionForm, ens \in BOOLEAN : supprimer_remediation(id, ens)
    \/ \E id \in IdsSuggestionForm, m \in {"GET", "POST"}, vide \in BOOLEAN :
            /\ m = "GET" \/ vide
            /\ faire_remediation(id, m, vide, EchecIA)
    \/ \E id \in IdsSuggestionForm, c \in ResultatsIA(CompletionsTentative) :
            faire_remediation(id, "POST", FALSE, c)
    \/ \E id \in IdsSuggestionForm : soumettre_remediation(id, TRUE, EchecIA)
    \/ \E id \in IdsSuggestionForm, c \in ResultatsIA(CompletionsTentative) :
            soumettre_remediation(id, FALSE, c)

\* login and logout
NextLogin ==
    \/ \E e \in Eleves, ok \in BOOLEAN : login_eleve(e, ok)
    \/ logout

\* the suggestions generated for student 1 by low-scored submissions, before
\* any teacher has opened them
InitValidation ==
    /\ now = 0
    /\ eleves = [e \in Eleves |->
                   [statut_paiement |-> IF e = 1 THEN "essai_gratuit" ELSE "paye",
                    date_fin_essai |-> DureeEssai,
                    date_fin_abonnement |-> IF e = 1 THEN {} ELSE {DureeEssai + 1}]]
    /\ reponses = <<>>
    /\ suggestions \in [IdsSuggestion -> {NouvelleSuggestion(1, t) : t \in TextesGeneres}]
    /\ session = SessionVide
    /\ last = Simple("init", "-")

\* the teacher opens a suggestion, and approves it with the form as the page
\* filled it, or with another expected answer
NextValidation ==
    \/ \E id \in IdsSuggestionForm, lang \in Langues, ens \in BOOLEAN :
            valider_remediation_texte(id, "GET", lang, PreRemplir(<<>>, lang), ens)
    \/ \E id \in IdsSuggestion :
            /\ last.op = "valider_remediation"
            /\ last.issue = "200"
            /\ last.suggestion_id = id
            /\ valider_remediation_texte(id, "POST", last.lang, last.form, TRUE)
    \/ \E id \in IdsSuggestion :
            /\ last.op = "valider_remediation"
            /\ last.issue = "200"
            /\ last.suggestion_id = id
            /\ valider_remediation_texte(id, "POST", last.lang,
                                         [last.form EXCEPT !.reponse = "r_prof", !.message = "prof"],
                                         TRUE)

SpecValidation == InitValidation /\ [][NextValidation]_vars

\* grading of the exercise submissions of one student
Next ==
    \/ NextReponse({1}, CompletionsNote)
    \/ NextSequentiel({1}, CompletionsNote)
    \/ \E e \in {1, 3}, x \in Exercices, m \in {"GET", "POST"}, vide \in BOOLEAN :
            faire_exercice(e, x, m, vide)

Spec == Init /\ [][Next]_vars

\* the score extraction applied to every completion of the form "<label>: d/5",
\* on both routes that call it, every later call and commit succeeding
NextExtraction ==
    \/ \E c \in ResultatsIA(CompletionsSur5) :
            soumettre_reponse(1, 1, FALSE, c, "ok", "ok")
    \/ \E c \in ResultatsIA(CompletionsSur5) :
            soumettre_sequentiel(1, 1, FALSE, "submit", c, "ok", "ok", "ok")

SpecExtraction == Init /\ [][NextExtraction]_vars

\* the grant opened by a low score, the gate of the dialogue and the close action
NextAcces ==
    \/ NextReponse({1}, CompletionsTentative)
    \/ NextLogin
    \/ Tick
    \/ \E m \in {"GET", "POST"} : enseignant_virtuel(m, FALSE, "ok", "")
    \/ dashboard_eleve
    \/ close_remediation_access

SpecAcces == Init /\ [][NextAcces]_vars

\* the return from the payment provider, the login and the gated dashboard
NextPaiement ==
    \/ \E p \in BOOLEAN, e \in IdsEleveForm, plan \in {"weekly", "monthly", "annual", "autre"},
          ck \in Checkouts \cup {CheckoutIntrouvable}, commit \in IssuesCommit :
            paiement_success(p, e, plan, ck, commit)
    \/ NextLogin
    \/ Tick
    \/ dashboard_eleve

SpecPaiement == Init /\ [][NextPaiement]_vars

(***************************************************************************)
(* execute_with_retry: one action enters the loop, one runs an iteration.  *)
(***************************************************************************)
\* what one call of func does: it returns a value or raises an exception whose
\* str() is the message, a sequence of words
Appel(type, valeur, message) == [type |-> type, valeur |-> valeur, message |-> message]
AucuneErreur == Appel("-", "-", <<>>)
AppelsPossibles ==
    {Appel("ok", v, <<>>) : v \in {"v1", "v2"}}
        \cup {Appel("OperationalError", "-", m) :
                 m \in {<<"database", "is", "locked">>, <<"database", "is", "LOCKED">>,
                        <<"disk", "full">>}}
        \cup {Appel("ValueError", "-", <<"database", "is", "locked">>)}

\* "locked" in str(e)
ContientLocked(message) == \E i \in 1..Len(message) : message[i] = "locked"

\* a retry that forgets to count the attempts that remain
DoitReessayer_sans_limite(e, attempt, max_retries) == ContientLocked(e.message)

\* if "locked" in str(e) and attempt < max_retries - 1
DoitReessayer(e, attempt, max_retries) ==
    ContientLocked(e.message) /\ attempt < max_retries - 1

\* the position of a run of execute_with_retry: the attempt of the loop, the
\* calls of func made so far, and what the run returned or raised once it ended
Essai(issue, max_retries, attempt, resultats, valeur, erreur) ==
    Simple("execute_with_retry", issue) @@
        [max_retries |-> max_retries, attempt |-> attempt, resultats |-> resultats,
         valeur |-> valeur, erreur |-> erreur]

\* the loop goes to its next attempt, or is exhausted and the function falls
\* off its end
Iteration(max_retries, attempt, resultats) ==
    IF attempt < max_retries
    THEN Essai("en_cours", max_retries, attempt, resultats, "-", AucuneErreur)
    ELSE Essai("retour", max_retries, attempt, resultats, "None", AucuneErreur)

\* execute_with_retry(func, max_retries): for attempt in range(max_retries)
execute_with_retry(max_retries) ==
    /\ ~(last.op = "execute_with_retry" /\ last.issue = "en_cours")
    /\ last' = Iteration(max_retries, 0, <<>>)
    /\ UNCHANGED <<now, eleves, reponses, suggestions, session>>

\* one iteration: return func(), or catch OperationalError and retry or re-raise
execute_with_retry_essai(r) ==
    /\ last.op = "execute_with_retry" /\ last.issue = "en_cours"
    /\ LET max_retries == last.max_retries
           attempt == last.attempt
           resultats == Append(last.resultats, r)
       IN last' = IF r.type = "ok"
                  THEN Essai("retour", max_retries, attempt, resultats, r.valeur, AucuneErreur)
                  ELSE IF r.type = "OperationalError" /\ DoitReessayer(r, attempt, max_retries)
                  THEN Iteration(max_retries, attempt + 1, resultats)
                  ELSE Essai("leve", max_retries, attempt, resultats, "-", r)
    /\ UNCHANGED <<now, eleves, reponses, suggestions, session>>

NextRetry ==
    \/ \E n \in 0..MaxEssais : execute_with_retry(n)
    \/ \E r \in AppelsPossibles : execute_with_retry_essai(r)

SpecRetry == Init /\ [][NextRetry]_vars

\* the dialogue: a student talks to the tutor
NextDialogue ==
    \/ login_eleve(1, TRUE)
    \/ nouvel_exercice
    \/ close_remediation_access
    \/ \E m \in {"GET", "POST"}, valide \in BOOLEAN :
            /\ m = "GET" \/ ~valide
            /\ enseignant_virtuel(m, valide, "ok", "")
    \/ \E q \in QuestionsIA : enseignant_virtuel("POST", TRUE, "ok", q)
    \/ enseignant_virtuel("POST", TRUE, "repli", QuestionRepli)
    \/ enseignant_virtuel("POST", TRUE, "exception", "")

SpecDialogue == Init /\ [][NextDialogue]_vars

\* the remediation lifecycle: suggestions are created by low-scored sequential
\* submissions, approved by the teacher and attempted by the student
NextLifecycle ==
    \/ \E c \in ResultatsIA(CompletionsEchouees) :
            soumettre_sequentiel(1, 1, FALSE, "submit", c, "ok", "ok", "ok")
    \/ NextRemediation
    \/ \E e \in Eleves : login_eleve(e, TRUE)

SpecRemediation == Init /\ [][NextLifecycle]_vars

(***************************************************************************)
(* Properties.                                                             *)
(***************************************************************************)
RoutesSoumission == {"soumettre_reponse", "soumettre_sequentiel"}

\* C1: when the grading completion fails in soumettre_reponse or
\* soumettre_sequentiel, the request ends in an outcome other than the normal
\* graded page and no StudentResponse row is persisted for the submission.
C1_EchecNotationNonPersiste ==
    (last.op \in RoutesSoumission /\ last.ia = "echec")
        => (last.issue # "200" /\ last.reponse_id = 0)

\* C2: every persisted score (etoiles of a StudentResponse row, etoiles of a
\* RemediationSuggestion row) is an integer in 0..5.
C2_EtoilesEntre0Et5 ==
    /\ \A i \in 1..Len(reponses) : reponses[i].etoiles \in 0..5
    /\ \A id \in IdsSuggestion : suggestions[id].etoiles \in 0..5

\* C3: a submission that reached a parsed score calls the remediation
\* generator at most once, never when the score is >= 3, and exactly once
\* when the score is < 3 and the request completes; both routes use 3.
C3_RemediationSelonSeuil ==
    (last.op \in RoutesSoumission /\ last.ia # "-")
        => /\ last.appels_remediation \in {0, 1}
           /\ last.etoiles >= 3 => last.appels_remediation = 0
           /\ (last.etoiles < 3 /\ last.issue = "200") => last.appels_remediation = 1

\* C3 witness: soumettre_sequentiel has graded a submission 2/5, called the
\* remediation generator once and stored the suggestion.
C3_Temoin ==
    /\ last.op = "soumettre_sequentiel"
    /\ last.issue = "200"
    /\ last.etoiles = 2
    /\ last.appels_remediation = 1
    /\ last.reponse_id # 0
    /\ last.suggestion_id # 0

\* C4: when the remediation completion fails and the store commits, no
\* RemediationSuggestion row is created and the grading row is persisted and
\* returned, in soumettre_reponse and in soumettre_sequentiel.
C4_EchecRemediationSansSuggestion ==
    (last.op \in RoutesSoumission /\ last.remediation = "echec" /\ last.issue = "200")
        => /\ last.suggestion_id = 0
           /\ last.reponse_id # 0
           /\ \A id \in IdsSuggestion : suggestions[id].exercice_suggere # "erreur"

\* C5: a logged-in student whose session holds the remediation grant of a
\* submission scored 2/5 and who has a pending suggestion is let into
\* enseignant_virtuel, even with the trial expired and no payment.
C5_AccesDialogueAvecRemediation ==
    [][ ( /\ "eleve_id" \in session.keys
          /\ "remediation_access" \in session.keys
          /\ session.remediation_access.note = 2
          /\ \E id \in IdsSuggestion :
                /\ suggestions[id].statut = "en_attente"
                /\ suggestions[id].user_id = session.eleve_id
          /\ last'.op = "enseignant_virtuel" )
        => last'.issue # "redirect_login" ]_vars

\* C6: after close_remediation_access by a logged-in student the session holds
\* no remediation grant, no transcript and no pinned tutor question.
C6_FermetureRetireAcces ==
    (last.op = "close_remediation_access" /\ last.issue = "redirect_dashboard")
        => session.keys \cap {"remediation_access", "conversation", "derniere_q_ia"} = {}

\* C7: the stored transcript never holds more than 15 entries.
C7_TranscriptBorne == Len(session.conversation) <= MaxMessages

\* C8: a suggestion whose status is reussie keeps that status (until a teacher
\* deletes the row): no later attempt reopens it.
C8_ReussieTerminale ==
    [][ \A id \in IdsSuggestion :
            suggestions[id].statut = "reussie"
                => suggestions'[id].statut \in {"reussie", "supprimee"} ]_vars

\* C9: valider_remediation applied to a suggestion that is not en_attente
\* leaves the row unchanged.
C9_ValidationHorsAttenteSansEffet ==
    [][ \A id \in IdsSuggestion :
            ( /\ last'.op = "valider_remediation"
              /\ last'.suggestion_id = id
              /\ suggestions[id].statut # "en_attente" )
                => suggestions'[id] = suggestions[id] ]_vars

\* C10: a suggestion becomes reussie only from the approved status (valide):
\* a suggestion still en_attente never becomes reussie.
C10_ReussieSeulementDepuisValide ==
    [][ \A id \in IdsSuggestion :
            (suggestions'[id].statut = "reussie" /\ suggestions[id].statut # "reussie")
                => suggestions[id].statut = "valide" ]_vars

RoutesTentative == {"faire_remediation", "soumettre_remediation"}

\* C11: a graded attempt scoring below 3 on an approved (valide) suggestion
\* does not send the suggestion back to en_attente: the student can attempt it
\* again without a new teacher approval.
C11_EchecResteOuvert ==
    [][ \A id \in IdsSuggestion :
            ( /\ suggestions[id].statut = "valide"
              /\ last'.op \in RoutesTentative
              /\ last'.suggestion_id = id
              /\ last'.reponse_id # 0
              /\ last'.etoiles < 3 )
                => suggestions'[id].statut # "en_attente" ]_vars

(***************************************************************************)
(* The access rule of the specification, against which the gate is checked.*)
(***************************************************************************)
\* the pages whose endpoint name is matched by before_request and that carry
\* their own test of the trial
PagesGardees == {"dashboard_eleve", "enseignant_virtuel"}

\* payment_status = paid and subscription_end null or later than now
AbonnementEnCours(e) ==
    /\ eleves[e].statut_paiement = "paye"
    /\ \A fin \in eleves[e].date_fin_abonnement : fin > now

\* (paid and subscription running) or now < trial_end
RegleAcces(e) == AbonnementEnCours(e) \/ now < eleves[e].date_fin_essai

\* the page was served: the request was neither sent to the login page nor to
\* the upgrade page
Servie(resultat) == resultat.issue \notin {"redirect_login", "redirect_upgrade"}

\* C12: a gated page requested by a logged-in student is served exactly when
\* the student has paid and the subscription has not ended, or the trial has
\* not ended.
C12_PorteSelonRegle ==
    [][ ( /\ last'.op \in PagesGardees
          /\ "eleve_id" \in session.keys )
        => (Servie(last') <=> RegleAcces(session.eleve_id)) ]_vars

\* C13: a student who has paid and whose subscription ends in the future is
\* never sent to the login page or to the upgrade page, by the gated pages or
\* by login_eleve, whatever the trial end.
C13_AbonneJamaisRefuse ==
    [][ /\ ( /\ last'.op \in PagesGardees
             /\ "eleve_id" \in session.keys
             /\ AbonnementEnCours(session.eleve_id) )
           => Servie(last')
        /\ ( /\ last'.op = "login_eleve"
             /\ last'.issue # "identifiants_incorrects"
             /\ AbonnementEnCours(session'.eleve_id) )
           => last'.issue # "redirect_upgrade" ]_vars

\* C14: for a logged-in student who has not paid and holds no remediation
\* grant, a gated page is served one clock unit before the trial end and
\* refused one clock unit after it.
C14_FrontiereEssai ==
    [][ ( /\ last'.op \in PagesGardees
          /\ "eleve_id" \in session.keys
          /\ eleves[session.eleve_id].statut_paiement # "paye"
          /\ "remediation_access" \notin session.keys )
        => /\ now = eleves[session.eleve_id].date_fin_essai - 1 => Servie(last')
           /\ now = eleves[session.eleve_id].date_fin_essai + 1 => ~Servie(last') ]_vars

\* C14 witness: the dialogue page has refused student 1 (not paid, no grant)
\* one clock unit after the trial end.
C14_Temoin ==
    /\ last.op = "enseignant_virtuel"
    /\ last.issue = "redirect_login"
    /\ last.flash # ""
    /\ now = eleves[1].date_fin_essai + 1
    /\ "remediation_access" \notin session.keys

RoutesNotees == RoutesSoumission \cup RoutesTentative

\* C15: no grading or remediation-attempt request stores a graded row for a
\* student whose trial has ended and who has not paid.
C15_PorteAvantNotation ==
    (last.op \in RoutesNotees /\ last.reponse_id # 0)
        => ~AccesRefuse(reponses[last.reponse_id].user_id)

\* C16: a logged-in student refused by the gate on the dashboard or on the
\* dialogue page is redirected to the upgrade page and stays logged in.
C16_RefusVersUpgrade ==
    [][ ( /\ last'.op \in PagesGardees
          /\ "eleve_id" \in session.keys
          /\ AccesRefuse(session.eleve_id) )
        => /\ last'.issue = "redirect_upgrade"
           /\ "eleve_id" \in session'.keys
           /\ session'.eleve_id = session.eleve_id ]_vars

\* no line of the text carries a label followed by a digit
SansMotif(analyse_ia) == \A i \in 1..Len(analyse_ia) : ~MatchSimple(analyse_ia[i])

\* a completion that grades the answer 0/5
CompletionsZero == { Analyse("Note", <<0>>, TRUE) }

\* C17: the score stored for a completion without any label/digit pattern
\* differs from the score stored for a completion that grades 0/5, so that an
\* unparsed grading is told from a true zero.
C17_NonParseDistinctDeZero ==
    \A i \in 1..Len(reponses) :
        (SansMotif(reponses[i].analyse_ia) /\ reponses[i].analyse_ia # ErreurIA)
            => \A zero \in CompletionsZero :
                   reponses[i].etoiles # etoiles_extraites(zero)

\* the last entry of a transcript
Dernier(conv) == conv[Len(conv)]

\* an accepted dialogue message whose completion failed
TourEchoue ==
    /\ last.op = "enseignant_virtuel"
    /\ last.issue \in {"200_guide", "200_excuse"}
    /\ last.tour \in {"repli", "exception"}

\* C18 as stated: after a dialogue turn whose completion failed, the last
\* transcript entry is the tutor's canned apology.
C18_ExcuseApresEchec ==
    TourEchoue
        => /\ session.conversation # <<>>
           /\ Dernier(session.conversation) = Message("tutor", "excuse")

\* C18 amended: after a dialogue turn whose completion failed, the last
\* transcript entry is a canned tutor entry: the generator's fallback guidance
\* when the completion call raised inside the generator, the apology when the
\* generator itself raised.
C18_TuteurApresEchec ==
    TourEchoue
        => /\ session.conversation # <<>>
           /\ Dernier(session.conversation) =
                  Message("tutor", IF last.tour = "repli" THEN "repli" ELSE "excuse")

\* C18 witness: the generator raised with a full transcript and the apology
\* is the last entry.
C18_Temoin ==
    /\ TourEchoue
    /\ last.tour = "exception"
    /\ Len(session.conversation) > MaxMessages
    /\ Dernier(session.conversation) = Message("tutor", "excuse")

\* session.get('derniere_q_ia'), "" when the key is absent
Epinglee(sess) == IF "derniere_q_ia" \in sess.keys THEN sess.derniere_q_ia ELSE ""

\* extraire_question on the two apology texts: no pattern matches the French
\* one, "Could you rephrase your question?" matches [Rr]ephrase\s+(.*?)\?
QuestionsExcuse == {"", "your question"}

\* C19: after a tutor turn the pinned question is the one extracted from that
\* turn's text, or none when no pattern matches; a question pinned earlier
\* does not survive the turn.
C19_QuestionDuDernierTour ==
    [][ /\ (last'.op = "enseignant_virtuel" /\ last'.issue = "200_guide")
           => Epinglee(session') = last'.question
        /\ (last'.op = "enseignant_virtuel" /\ last'.issue = "200_excuse")
           => Epinglee(session') \in QuestionsExcuse ]_vars

\* C20: a dialogue turn calls generer_suite_conversation exactly when a
\* question is pinned in the session, and gives it the pinned question and the
\* last 10 entries of the transcript extended with the student's message
\* (all of them when there are fewer), the student's message last; otherwise
\* it calls generer_debut_conversation.
C20_ModeEtContexte ==
    [][ (last'.op = "enseignant_virtuel" /\ last'.issue \in {"200_guide", "200_excuse"})
        => LET complet == IF session.conversation = <<>>
                          THEN <<Message("tutor", "bienvenue"), Message("student", "eleve")>>
                          ELSE session.conversation \o <<Message("student", "eleve")>>
               h == last'.historique
           IN /\ last'.mode = IF "derniere_q_ia" \in session.keys THEN "suite" ELSE "debut"
              /\ last'.mode = "suite"
                 => /\ last'.derniere_q = session.derniere_q_ia
                    /\ Len(h) = Min2(Len(complet), 10)
                    /\ \A k \in 1..Len(h) : h[k] = complet[Len(complet) - Len(h) + k]
                    /\ Dernier(h) = Message("student", "eleve") ]_vars

\* C20 witness: generer_suite_conversation was called with a transcript longer
\* than 10 entries and received 10 of them.
C20_Temoin ==
    /\ last.op = "enseignant_virtuel"
    /\ last.issue = "200_guide"
    /\ last.mode = "suite"
    /\ last.derniere_q = "q1"
    /\ Len(last.historique) = 10
    /\ Len(session.conversation) = MaxMessages

\* an accepted dialogue message (the request reached the try/except)
TourAccepte(resultat) ==
    /\ resultat.op = "enseignant_virtuel"
    /\ resultat.issue \in {"200_guide", "200_excuse"}

\* C21: the first accepted message of a session without transcript (new, or
\* reset by nouvel_exercice) stores the welcome line, the student's message
\* and the tutor's opening turn, in that order, and the opening turn comes
\* from generer_debut_conversation.
C21_PremierMessage ==
    [][ (TourAccepte(last') /\ session.conversation = <<>>)
        => /\ Len(session'.conversation) = 3
           /\ session'.conversation[1] = Message("tutor", "bienvenue")
           /\ session'.conversation[2] = Message("student", "eleve")
           /\ session'.conversation[3].speaker = "tutor"
           /\ last'.mode = "debut" ]_vars

\* C21 witness: a first message has been answered by the opening turn.
C21_Temoin ==
    /\ TourAccepte(last)
    /\ last.tour = "ok"
    /\ last.mode = "debut"
    /\ session.conversation = <<Message("tutor", "bienvenue"), Message("student", "eleve"),
                                Message("tutor", "reponse")>>

\* C22: nouvel_exercice by a logged-in student leaves the session without
\* transcript and without pinned question, whatever the dialogue state.
C22_NouvelExerciceVide ==
    [][ (last'.op = "nouvel_exercice" /\ "eleve_id" \in session.keys)
        => /\ session'.keys \cap {"conversation", "derniere_q_ia"} = {}
           /\ session'.conversation = <<>>
           /\ Epinglee(session') = "" ]_vars

\* C22 witness: the reset has been taken by a logged-in student.
C22_Temoin ==
    /\ last.op = "nouvel_exercice"
    /\ last.issue = "redirect_enseignant_virtuel"
    /\ "eleve_id" \in session.keys
    /\ session.conversation = <<>>

\* no two consecutive entries of the transcript have the same speaker
Alterne(conv) == \A k \in 1..(Len(conv) - 1) : conv[k].speaker # conv[k + 1].speaker

\* C23: in every stored transcript the speakers alternate, and after an
\* accepted message the transcript ends with the student's entry followed by
\* one tutor entry, also when it was trimmed.
C23_Alternance ==
    /\ Alterne(session.conversation)
    /\ TourAccepte(last)
       => /\ Len(session.conversation) >= 2
          /\ session.conversation[Len(session.conversation) - 1].speaker = "student"
          /\ Dernier(session.conversation).speaker = "tutor"

\* C23 witness: a turn has been stored in a transcript trimmed to 15 entries.
C23_Temoin ==
    /\ TourAccepte(last)
    /\ last.tour = "ok"
    /\ Len(last.historique) = 10
    /\ Len(session.conversation) = MaxMessages
    /\ session.conversation[1].speaker = "tutor"
    /\ session.conversation[1].kind # "bienvenue"

\* the labels of a score line, in any case
LabelsNote == {"Note", "NOTE", "note", "Score", "SCORE", "score"}

\* C24: when the first score line of the stored completion is "Note: d/5" or
\* "Score: d/5" (any case) with d in 0..5, the stored score is d.
C24_ExtractionSur5 ==
    \A i \in 1..Len(reponses) :
        LET t == reponses[i].analyse_ia IN
        \A k \in 1..Len(t) :
            ( /\ t[k].label \in LabelsNote
              /\ \A j \in 1..(k - 1) : t[j].label \notin LabelsNote
              /\ t[k].slash5
              /\ Len(t[k].digits) = 1
              /\ t[k].digits[1] \in 0..5 )
                => reponses[i].etoiles = t[k].digits[1]

\* C24 witness: a completion "SCORE: 4/5" followed by "Score: 1/5" is stored
\* with the score 4.
C24_Temoin ==
    \E i \in 1..Len(reponses) :
        /\ Len(reponses[i].analyse_ia) = 3
        /\ reponses[i].analyse_ia[2] = Ligne("SCORE", <<4>>, TRUE)
        /\ reponses[i].etoiles = 4

\* C25: when the teacher opens a generated suggestion and approves it with the
\* form unchanged, the question and the expected answer that faire_remediation
\* reads from the rebuilt text are those it read from the generated text.
C25_AllerRetourValidation ==
    [][ \A id \in IdsSuggestion :
            ( /\ last.op = "valider_remediation"
              /\ last.issue = "200"
              /\ last.suggestion_id = id
              /\ last'.op = "valider_remediation"
              /\ last'.issue = "redirect_a_valider"
              /\ last'.suggestion_id = id
              /\ suggestions[id].message = "auto"
              /\ suggestions'[id].message = "auto" )
                => LireEnonce(suggestions'[id].exercice_suggere)
                       = LireEnonce(suggestions[id].exercice_suggere) ]_vars

\* C26: whenever the session holds a remediation grant, the grading record of
\* the exercise it names and a suggestion of the graded student are stored;
\* a submission whose final commit failed leaves no grant.
C26_AccesSeulementSiPersiste ==
    /\ "remediation_access" \in session.keys
       => /\ \E i \in 1..Len(reponses) :
                reponses[i].exercice_id = session.remediation_access.exercice_id
          /\ \E id \in IdsSuggestion : suggestions[id].statut = "en_attente"
    /\ (last.op = "soumettre_reponse" /\ last.issue = "500_db")
       => "remediation_access" \notin session.keys

\* C27: at most one graded response is stored for a student and an exercise.
C27_UneReponseParExercice ==
    \A i, j \in 1..Len(reponses) :
        ( /\ reponses[i].exercice_id # 0
          /\ reponses[i].exercice_id = reponses[j].exercice_id
          /\ reponses[i].user_id = reponses[j].user_id )
            => i = j

RejetsRemediation == {"403", "non_validee", "400", "500_ia"}

\* C28: a request to faire_remediation that is rejected (suggestion of another
\* student, suggestion not approved, empty answer, failed grading call) leaves
\* every suggestion row and every stored response as they were.
C28_RejetSansEcriture ==
    [][ (last'.op = "faire_remediation" /\ last'.issue \in RejetsRemediation)
            => (suggestions' = suggestions /\ reponses' = reponses) ]_vars

\* C28 witness: the grading call of an attempt on an approved suggestion failed
C28_Temoin ==
    /\ last.op = "faire_remediation"
    /\ last.issue = "500_ia"
    /\ suggestions[last.suggestion_id].statut = "valide"
    /\ suggestions[last.suggestion_id].user_id = session.eleve_id

\* C29: paiement_success marks the student paid and sets the end of the
\* subscription only when the checkout session it looked at has the payment
\* status "paid"; with any other payment status the student's row is unchanged.
C29_ActiveSeulementSiPaye ==
    [][ (last'.op = "paiement_success" /\ last'.checkout.payment_status # "paid")
            => eleves' = eleves ]_vars

\* the call of func was an OperationalError whose message contains "locked"
EstVerrou(r) ==
    /\ r.type = "OperationalError"
    /\ \E i \in 1..Len(r.message) : r.message[i] = "locked"

\* C30: execute_with_retry calls func at most max_retries times; every call
\* that was followed by another one raised a "locked" OperationalError; a call
\* that succeeds ends the run with its value; a "locked" OperationalError with
\* attempts remaining is retried; any other error, and a "locked" one on the last
\* attempt, ends the run by being raised.
C30_RetryBorne ==
    last.op = "execute_with_retry" =>
        LET n == Len(last.resultats)
            appels == last.resultats
        IN /\ n <= last.max_retries
           /\ \A i \in 1..(n - 1) : EstVerrou(appels[i])
           /\ n > 0 =>
                IF appels[n].type = "ok"
                THEN last.issue = "retour" /\ last.valeur = appels[n].valeur
                ELSE IF EstVerrou(appels[n]) /\ n < last.max_retries
                THEN last.issue = "en_cours"
                ELSE last.issue = "leve" /\ last.erreur = appels[n]

\* C30 witness: with three attempts allowed, func raised "database is locked"
\* three times and the third error was raised to the caller
C30_Temoin ==
    /\ last.op = "execute_with_retry"
    /\ last.max_retries = Len(last.resultats)
    /\ Len(last.resultats) > 2
    /\ last.issue = "leve"
    /\ EstVerrou(last.erreur)

====
